---- MODULE Spec2Model ----
(***************************************************************************)
(* Currency Rate Analyst (src/main.py): the streaming bridge               *)
(* stream_agent_progress and the blocking handler query_agent, both        *)
(* consuming the asynchronous message sequence of query(...).              *)
(*                                                                         *)
(* One behaviour is one /stream request and one /query request served      *)
(* side by side, each iterating its own producer over the same message     *)
(* sequence.  A step of the stream runs the generator from one suspension  *)
(* point (a yield, or the await on the producer) to the next.              *)
(*                                                                         *)
(* Frames are modelled by the event they carry, [type, data]; the          *)
(* timestamp field and the "data: ...\n\n" wire wrapping are left out.     *)
(* The pictographs that open the "message" texts in the source cannot be   *)
(* written in a TLA+ string and are dropped from them.                     *)
(*                                                                         *)
(* The producer's messages are those the SDK builds from decoded JSON: a   *)
(* ToolUse input is a JSON mapping, so json.dumps of a frame succeeds.  A  *)
(* producer failure is an instance of Exception carrying string arguments. *)
(***************************************************************************)
EXTENDS Integers, Sequences, FiniteSets, TLC

\* ------------------------------------------------------------------ bounds
\* The producer yields at most MaxMsgs messages before it ends.
MaxMsgs == 2
\* The messages of one producer sequence hold at most MaxBlocks content blocks.
MaxBlocks == 2

\* ------------------------------------------------------- python primitives
None == [py |-> "None"]
EmptyMap == [k \in {} |-> k]

\* Mutant: the default is not substituted.
Or_NoDefault(x, d) == x

\* `x or d`: None and the empty mapping are falsy.
Or(x, d) == IF x = None \/ x = EmptyMap THEN d ELSE x

\* sep.join(parts)
RECURSIVE Join(_, _)
Join(sep, parts) ==
    IF Len(parts) = 0 THEN ""
    ELSE IF Len(parts) = 1 THEN parts[1]
    ELSE parts[1] \o sep \o Join(sep, Tail(parts))

\* str(e) of an exception built from a tuple of string arguments.
Str(e) ==
    IF Len(e.args) = 0 THEN ""
    ELSE IF Len(e.args) = 1 THEN e.args[1]
    ELSE "(" \o Join(", ", [i \in 1..Len(e.args) |-> "'" \o e.args[i] \o "'"]) \o ")"

\* ------------------------------------------------------------ configuration
AGENT_CONFIG ==
    [name |-> "Currency Rate Analyst",
     role |-> "Financial Data Analyst specializing in currency conversion rates",
     tools |-> <<"WebSearch", "WebFetch", "Read", "Write", "Bash">>,
     system_prompt |-> "You are a Currency Rate Analyst, ...",
     permission_mode |-> "acceptEdits"]

\* ------------------------------------------------------ producer's messages
Texts == {"", "EUR=0.92"}

TextBlock(t) == [type |-> "TextBlock", text |-> t]
ToolUseBlock(n, i) == [type |-> "ToolUseBlock", name |-> n, input |-> i]
ToolResultBlock == [type |-> "ToolResultBlock"]

Blocks ==
    {TextBlock(t) : t \in Texts}
        \cup {ToolUseBlock("WebSearch", [query |-> "USD/EUR"])}
        \cup {ToolResultBlock}

AssistantMessage(c) == [type |-> "AssistantMessage", content |-> c]
ResultMessage(d, c, n, s) ==
    [type |-> "ResultMessage", duration_ms |-> d, total_cost_usd |-> c,
     num_turns |-> n, session_id |-> s]
SystemMessage == [type |-> "SystemMessage"]

\* total_cost_usd is held in cents.
Results == {ResultMessage(1200, 1, 1, "abc"), ResultMessage(800, 3, 2, "xyz")}

Contents(b) == UNION {[1..n -> Blocks] : n \in 0..b}

\* The messages holding at most b content blocks.
Messages(b) == {AssistantMessage(c) : c \in Contents(b)} \cup Results \cup {SystemMessage}

NBlocks(m) == IF m.type = "AssistantMessage" THEN Len(m.content) ELSE 0

\* The message sequences of at most n messages and at most b blocks in all.
RECURSIVE ProducerSeqs(_, _)
ProducerSeqs(n, b) ==
    IF n = 0 THEN {<<>>}
    ELSE {<<>>} \cup
         UNION {{<<m>> \o s : s \in ProducerSeqs(n - 1, b - NBlocks(m))} : m \in Messages(b)}

\* How the producer ends after its last message: exhaustion, or a failure.
StopAsyncIteration == [kind |-> "stop"]
Raise(e) == [kind |-> "raise", exc |-> e]
Failures == {[cls |-> "ConnectionError", args |-> <<"timeout">>],
             [cls |-> "RuntimeError", args |-> <<>>]}
Ends == {StopAsyncIteration} \cup {Raise(e) : e \in Failures}

\* ----------------------------------------------------------------- requests
\* QueryRequest(**body): prompt is any string, max_turns any integer, 20 when
\* the body gives none; the class declares no other constraint.
QueryRequest(body) ==
    [prompt |-> body.prompt,
     max_turns |-> IF "max_turns" \in DOMAIN body THEN body.max_turns ELSE 20]

ClaudeAgentOptions(allowed_tools, system_prompt, permission_mode, max_turns) ==
    [allowed_tools |-> allowed_tools, system_prompt |-> system_prompt,
     permission_mode |-> permission_mode, max_turns |-> max_turns]

\* The options either handler builds from the configuration and the request.
OptionsFor(req) ==
    ClaudeAgentOptions(AGENT_CONFIG.tools, AGENT_CONFIG.system_prompt,
                       AGENT_CONFIG.permission_mode, req.max_turns)

\* query(prompt=request.prompt, options=options)
QueryArgs(req) == [prompt |-> req.prompt, options |-> OptionsFor(req)]

\* --------------------------------------------------------------------- state
VARIABLES
    request,    \* the QueryRequest both handlers are called with
    prod_msgs,  \* the messages query(...) yields, in order
    prod_end,   \* what advancing past the last message does
    s_pc,       \* stream_agent_progress: where the generator is suspended
    s_calls,    \* stream: number of query(...) invocations
    s_args,     \* stream: the arguments of its query(...) call
    s_prod,     \* stream: its producer: "none", "open" or "closed"
    s_sent,     \* stream: number of frames the transport has taken and sent
    s_pos,      \* stream: number of advances of its producer so far
    s_msg,      \* stream: the message bound by the async for
    s_blk,      \* stream: index in message.content of the block being yielded
    s_parts,    \* stream: response_parts
    s_usage,    \* stream: usage_info
    s_out,      \* stream: the frames yielded so far
    q_pc,       \* query_agent: where the handler is
    q_calls,    \* query: number of query(...) invocations
    q_args,     \* query: the arguments of its query(...) call
    q_pos,      \* query: number of advances of its producer so far
    q_parts,    \* query: response_parts
    q_usage,    \* query: usage_info
    q_result    \* query: what the handler returned or raised

\* The inputs of a run: the request and the behaviour of the producer.
prod_vars == <<request, prod_msgs, prod_end>>
s_vars == <<s_pc, s_calls, s_args, s_prod, s_sent, s_pos, s_msg, s_blk, s_parts, s_usage,
           s_out>>
q_vars == <<q_pc, q_calls, q_args, q_pos, q_parts, q_usage, q_result>>
vars == <<prod_vars, s_vars, q_vars>>

\* Both handlers entered, nothing run yet.
Entered ==
    /\ s_pc = "start"
    /\ s_calls = 0
    /\ s_args = None
    /\ s_prod = "none"
    /\ s_sent = 0
    /\ s_pos = 0
    /\ s_msg = None
    /\ s_blk = 0
    /\ s_parts = None
    /\ s_usage = None
    /\ s_out = <<>>
    /\ q_pc = "start"
    /\ q_calls = 0
    /\ q_args = None
    /\ q_pos = 0
    /\ q_parts = None
    /\ q_usage = None
    /\ q_result = None

Init ==
    /\ request = QueryRequest([prompt |-> "rates for USD/EUR"])
    /\ prod_msgs \in ProducerSeqs(MaxMsgs, MaxBlocks)
    /\ prod_end \in Ends
    /\ Entered

\* -------------------------------------------------------------------- events
create_event(event_type, data) == [type |-> event_type, data |-> data]

ProgressStart ==
    create_event("progress",
        [message |-> "Starting Currency Rate Analyst...",
         agent |-> AGENT_CONFIG.name,
         status |-> "initializing"])

ProgressProcessing ==
    create_event("progress",
        [message |-> "Processing your request...",
         status |-> "processing"])

\* Mutant: the event carries the number of fragments gathered before it.
ResponseEvent_Numbered(block) ==
    create_event("response",
        [content |-> block.text,
         partial |-> TRUE,
         message |-> "Agent thinking...",
         index |-> Len(s_parts)])

ResponseEvent(block) ==
    create_event("response",
        [content |-> block.text,
         partial |-> TRUE,
         message |-> "Agent thinking..."])

ToolUseEvent(block) ==
    create_event("tool_use",
        [tool |-> block.name,
         input |-> block.input,
         message |-> "Using " \o block.name \o " tool...",
         status |-> "executing"])

UsageOf(message) ==
    [duration_ms |-> message.duration_ms,
     total_cost_usd |-> message.total_cost_usd,
     num_turns |-> message.num_turns,
     session_id |-> message.session_id]

\* Mutant: the placeholder stands in for an empty joined string.
FullResponse_PlaceholderForEmpty(response_parts) ==
    IF Join("\n", response_parts) # "" THEN Join("\n", response_parts)
    ELSE "No response received"

\* Mutant: the fragments are joined, with no placeholder for an empty list.
FullResponse_JoinOnly(response_parts) == Join("\n", response_parts)

FullResponse(response_parts) ==
    IF Len(response_parts) > 0 THEN Join("\n", response_parts) ELSE "No response received"

AgentInfo == [name |-> AGENT_CONFIG.name, role |-> AGENT_CONFIG.role]

CompleteEvent(response_parts, usage_info) ==
    create_event("complete",
        [response |-> FullResponse(response_parts),
         usage |-> Or(usage_info, EmptyMap),
         status |-> "completed",
         message |-> "Task completed successfully!",
         agent_info |-> AgentInfo])

\* json.dumps(event) raises TypeError when the event holds a value that is no
\* JSON value; of all payloads only a tool input can hold one.
NonJsonInput == [payload |-> [py |-> "bytes"]]
JsonDumpsRaises(event) ==
    /\ event.type = "tool_use"
    /\ event.data.input = NonJsonInput
JsonTypeError ==
    [cls |-> "TypeError", args |-> <<"Object of type bytes is not JSON serializable">>]

ErrorEvent(e) ==
    create_event("error",
        [error |-> Str(e),
         message |-> "Error: " \o Str(e),
         status |-> "failed"])

\* ------------------------------------------------------------ the producer
\* The producer's iterator, advanced pos times so far, holds a next message.
HasNext(pos) == pos < Len(prod_msgs)
NextMessage(pos) == prod_msgs[pos + 1]

\* ---------------------------------------------------- stream_agent_progress
\* Mutant: the ToolUseBlock test is missing; only Text blocks yield.
RECURSIVE NextYield_TextOnly(_, _)
NextYield_TextOnly(content, i) ==
    IF i > Len(content) THEN 0
    ELSE IF content[i].type = "TextBlock" THEN i
    ELSE NextYield_TextOnly(content, i + 1)

\* The first block at index i or later that the loop body yields an event for
\* (0 when there is none): blocks of any other kind fall through both tests.
RECURSIVE NextYield(_, _)
NextYield(content, i) ==
    IF i > Len(content) THEN 0
    ELSE IF content[i].type \in {"TextBlock", "ToolUseBlock"} THEN i
    ELSE NextYield(content, i + 1)

\* The transport has sent the frame it was handed and asks for the next one:
\* the generator is resumed at its yield.
Resumed == s_sent' = s_sent + 1

\* The generator hands a frame to the transport and suspends at that yield.
Yield(frame, at) ==
    /\ s_out' = Append(s_out, frame)
    /\ s_pc' = at

\* After the loop: join the fragments and yield the completion event.
StreamComplete(response_parts, usage_info) ==
    Yield(CompleteEvent(response_parts, usage_info), "y_complete")

\* Mutant: the handler swallows the failure and reports completion.
StreamExcept_AsComplete(e) ==
    Yield(CompleteEvent(s_parts, s_usage), "y_complete")

\* except Exception as e: yield the error event.
StreamExcept(e) ==
    Yield(ErrorEvent(e), "y_error")

\* Mutant: the events of a message are gathered and handed over together.
RECURSIVE BatchOf(_, _)
BatchOf(content, i) ==
    IF i > Len(content) THEN <<>>
    ELSE (IF content[i].type = "TextBlock" THEN <<ResponseEvent(content[i])>>
          ELSE IF content[i].type = "ToolUseBlock" THEN <<ToolUseEvent(content[i])>>
          ELSE <<>>) \o BatchOf(content, i + 1)
RECURSIVE BatchTexts(_, _)
BatchTexts(content, i) ==
    IF i > Len(content) THEN <<>>
    ELSE (IF content[i].type = "TextBlock" THEN <<content[i].text>> ELSE <<>>)
         \o BatchTexts(content, i + 1)
StreamBlocks_Batched(message, i) ==
    IF BatchOf(message.content, i) = <<>>
    THEN /\ s_pc' = "await"
         /\ s_blk' = 0
         /\ UNCHANGED <<s_parts, s_out>>
    ELSE /\ s_blk' = Len(message.content)
         /\ s_parts' = s_parts \o BatchTexts(message.content, i)
         /\ s_out' = s_out \o BatchOf(message.content, i)
         /\ s_pc' = "y_block"

\* Mutant: an empty text is yielded but not kept as a fragment.
StreamBlocks_DropEmpty(message, i) ==
    LET j == NextYield(message.content, i) IN
    IF j = 0
    THEN /\ s_pc' = "await"
         /\ s_blk' = 0
         /\ UNCHANGED <<s_parts, s_out>>
    ELSE LET block == message.content[j] IN
         /\ s_blk' = j
         /\ IF block.type = "TextBlock"
            THEN /\ s_parts' = IF block.text = "" THEN s_parts
                                ELSE Append(s_parts, block.text)
                 /\ Yield(ResponseEvent(block), "y_block")
            ELSE /\ UNCHANGED s_parts
                 /\ Yield(ToolUseEvent(block), "y_block")

\* for block in message.content, from index i, up to the next yield; with the
\* content used up, control is back at the async for, awaiting the producer.
StreamBlocks(message, i) ==
    LET j == NextYield(message.content, i) IN
    IF j = 0
    THEN /\ s_pc' = "await"
         /\ s_blk' = 0
         /\ UNCHANGED <<s_parts, s_out>>
    ELSE LET block == message.content[j] IN
         /\ s_blk' = j
         /\ IF block.type = "TextBlock"
            THEN /\ s_parts' = Append(s_parts, block.text)
                 /\ Yield(ResponseEvent(block), "y_block")
            ELSE /\ UNCHANGED s_parts
                 /\ IF JsonDumpsRaises(ToolUseEvent(block))
                    THEN StreamExcept(JsonTypeError)
                    ELSE Yield(ToolUseEvent(block), "y_block")

\* First resumption: the generator runs to its first yield.
StreamStart ==
    /\ s_pc = "start"
    /\ Yield(ProgressStart, "y_init")
    /\ UNCHANGED <<s_calls, s_pos, s_msg, s_blk, s_parts, s_usage>>
    /\ UNCHANGED <<s_args, s_prod, s_sent>>
    /\ UNCHANGED <<prod_vars, q_vars>>

\* Mutant: the second progress event is not yielded.
StreamOptions_Silent ==
    /\ s_pc = "y_init"
    /\ s_pc' = "y_proc"
    /\ UNCHANGED <<s_calls, s_pos, s_msg, s_blk, s_parts, s_usage, s_out>>
    /\ Resumed
    /\ UNCHANGED <<s_args, s_prod>>
    /\ UNCHANGED <<prod_vars, q_vars>>

\* Resumed at the first yield: the options are built, the second event yielded.
StreamOptions ==
    /\ s_pc = "y_init"
    /\ Yield(ProgressProcessing, "y_proc")
    /\ UNCHANGED <<s_calls, s_pos, s_msg, s_blk, s_parts, s_usage>>
    /\ Resumed
    /\ UNCHANGED <<s_args, s_prod>>
    /\ UNCHANGED <<prod_vars, q_vars>>

\* Resumed at the second yield: the accumulators are set up, query(...) is
\* called and the async for awaits the first message.
StreamInvoke ==
    /\ s_pc = "y_proc"
    /\ s_parts' = <<>>
    /\ s_usage' = None
    /\ s_calls' = s_calls + 1
    /\ s_pc' = "await"
    /\ UNCHANGED <<s_pos, s_msg, s_blk, s_out>>
    /\ Resumed
    /\ s_args' = QueryArgs(request)
    /\ s_prod' = "open"
    /\ UNCHANGED <<prod_vars, q_vars>>

\* The producer delivers an AssistantMessage.
StreamOnAssistant ==
    /\ s_pc = "await"
    /\ HasNext(s_pos)
    /\ NextMessage(s_pos).type = "AssistantMessage"
    /\ s_pos' = s_pos + 1
    /\ s_msg' = NextMessage(s_pos)
    /\ StreamBlocks(NextMessage(s_pos), 1)
    /\ UNCHANGED <<s_calls, s_usage>>
    /\ UNCHANGED <<s_args, s_prod, s_sent>>
    /\ UNCHANGED <<prod_vars, q_vars>>

\* Resumed at a yield of the block loop: the loop goes on with the next block.
StreamResumeBlock ==
    /\ s_pc = "y_block"
    /\ StreamBlocks(s_msg, s_blk + 1)
    /\ UNCHANGED <<s_calls, s_pos, s_msg, s_usage>>
    /\ Resumed
    /\ UNCHANGED <<s_args, s_prod>>
    /\ UNCHANGED <<prod_vars, q_vars>>

\* Mutant: the break is missing; the loop goes on after a ResultMessage.
StreamOnResult_NoBreak ==
    /\ s_pc = "await"
    /\ HasNext(s_pos)
    /\ NextMessage(s_pos).type = "ResultMessage"
    /\ s_pos' = s_pos + 1
    /\ s_msg' = NextMessage(s_pos)
    /\ s_usage' = UsageOf(NextMessage(s_pos))
    /\ UNCHANGED <<s_pc, s_calls, s_blk, s_parts, s_out>>
    /\ UNCHANGED <<s_args, s_prod, s_sent>>
    /\ UNCHANGED <<prod_vars, q_vars>>

\* The producer delivers a ResultMessage: usage_info is set, the loop is left.
StreamOnResult ==
    /\ s_pc = "await"
    /\ HasNext(s_pos)
    /\ NextMessage(s_pos).type = "ResultMessage"
    /\ s_pos' = s_pos + 1
    /\ s_msg' = NextMessage(s_pos)
    /\ s_usage' = UsageOf(NextMessage(s_pos))
    /\ StreamComplete(s_parts, UsageOf(NextMessage(s_pos)))
    /\ UNCHANGED <<s_calls, s_blk, s_parts>>
    /\ UNCHANGED <<s_args, s_prod, s_sent>>
    /\ UNCHANGED <<prod_vars, q_vars>>

\* Mutant: a message of an unknown class is taken for a failure.
StreamOnOther_Fails ==
    /\ s_pc = "await"
    /\ HasNext(s_pos)
    /\ NextMessage(s_pos).type \notin {"AssistantMessage", "ResultMessage"}
    /\ s_pos' = s_pos + 1
    /\ s_msg' = NextMessage(s_pos)
    /\ StreamExcept([cls |-> "TypeError", args |-> <<"unknown message">>])
    /\ UNCHANGED <<s_calls, s_blk, s_parts, s_usage>>
    /\ UNCHANGED <<s_args, s_prod, s_sent>>
    /\ UNCHANGED <<prod_vars, q_vars>>

\* The producer delivers a message of any other class: neither test matches.
StreamOnOther ==
    /\ s_pc = "await"
    /\ HasNext(s_pos)
    /\ NextMessage(s_pos).type \notin {"AssistantMessage", "ResultMessage"}
    /\ s_pos' = s_pos + 1
    /\ s_msg' = NextMessage(s_pos)
    /\ UNCHANGED <<s_pc, s_calls, s_blk, s_parts, s_usage, s_out>>
    /\ UNCHANGED <<s_args, s_prod, s_sent>>
    /\ UNCHANGED <<prod_vars, q_vars>>

\* The producer is exhausted: the async for ends.
StreamOnStop ==
    /\ s_pc = "await"
    /\ ~HasNext(s_pos)
    /\ prod_end.kind = "stop"
    /\ s_pos' = s_pos + 1
    /\ StreamComplete(s_parts, s_usage)
    /\ UNCHANGED <<s_calls, s_msg, s_blk, s_parts, s_usage>>
    /\ s_prod' = "closed"
    /\ UNCHANGED <<s_args, s_sent>>
    /\ UNCHANGED <<prod_vars, q_vars>>

\* Mutant: a failed producer is started over once before the failure counts.
StreamOnRaise_Retry ==
    /\ s_pc = "await"
    /\ ~HasNext(s_pos)
    /\ prod_end.kind = "raise"
    /\ IF s_calls < 2
       THEN /\ s_calls' = s_calls + 1
            /\ s_pos' = 0
            /\ s_prod' = "open"
            /\ UNCHANGED <<s_pc, s_out>>
       ELSE /\ s_pos' = s_pos + 1
            /\ s_prod' = "closed"
            /\ StreamExcept(prod_end.exc)
            /\ UNCHANGED s_calls
    /\ UNCHANGED <<s_msg, s_blk, s_parts, s_usage>>
    /\ UNCHANGED <<s_args, s_sent>>
    /\ UNCHANGED <<prod_vars, q_vars>>

\* Advancing the producer raises: the handler of the try takes over.
StreamOnRaise ==
    /\ s_pc = "await"
    /\ ~HasNext(s_pos)
    /\ prod_end.kind = "raise"
    /\ s_pos' = s_pos + 1
    /\ StreamExcept(prod_end.exc)
    /\ UNCHANGED <<s_calls, s_msg, s_blk, s_parts, s_usage>>
    /\ s_prod' = "closed"
    /\ UNCHANGED <<s_args, s_sent>>
    /\ UNCHANGED <<prod_vars, q_vars>>

\* Where the generator can be suspended: at a yield, with the transport
\* sending the frame, or at the async for, awaiting the producer.
SuspensionPoints == {"y_init", "y_proc", "await", "y_block", "y_complete", "y_error"}

\* Mutant: a finally clause of the generator yields an error event on the way
\* out of a cancellation.
ClientDisconnect_Reported ==
    /\ s_pc \in SuspensionPoints
    /\ Yield(ErrorEvent([cls |-> "CancelledError", args |-> <<>>]), "cancelled")
    /\ s_prod' = IF s_prod = "open" THEN "closed" ELSE s_prod
    /\ UNCHANGED <<s_calls, s_args, s_sent, s_pos, s_msg, s_blk, s_parts, s_usage>>
    /\ UNCHANGED <<prod_vars, q_vars>>

\* The client disconnects while the generator is suspended.  CancelledError
\* (at the await) or GeneratorExit (at a yield) is raised at that point; it is
\* no Exception, so `except Exception` lets it pass: the generator ends there
\* and its frame, which alone holds the producer, is unwound.
ClientDisconnect ==
    /\ s_pc \in SuspensionPoints
    /\ s_pc' = "cancelled"
    /\ s_prod' = IF s_prod = "open" THEN "closed" ELSE s_prod
    /\ UNCHANGED <<s_calls, s_args, s_sent, s_pos, s_msg, s_blk, s_parts, s_usage, s_out>>
    /\ UNCHANGED <<prod_vars, q_vars>>

\* Mutant: the handler does not end the generator; the completion code runs too.
StreamFinish_FallThrough ==
    /\ s_pc \in {"y_complete", "y_error"}
    /\ IF s_pc = "y_error"
       THEN Yield(CompleteEvent(s_parts, s_usage), "y_complete")
       ELSE /\ s_pc' = "done"
            /\ UNCHANGED s_out
    /\ UNCHANGED <<s_calls, s_pos, s_msg, s_blk, s_parts, s_usage>>
    /\ Resumed
    /\ s_prod' = "closed"
    /\ UNCHANGED <<s_args>>
    /\ UNCHANGED <<prod_vars, q_vars>>

\* Resumed at the yield of the complete or the error event: the generator ends.
StreamFinish ==
    /\ s_pc \in {"y_complete", "y_error"}
    /\ s_pc' = "done"
    /\ UNCHANGED <<s_calls, s_pos, s_msg, s_blk, s_parts, s_usage, s_out>>
    /\ Resumed
    /\ s_prod' = "closed"
    /\ UNCHANGED <<s_args>>
    /\ UNCHANGED <<prod_vars, q_vars>>

\* --------------------------------------------------------------- query_agent
QueryResponse(status, response, usage, agent_info) ==
    [status |-> status, response |-> response, usage |-> usage,
     agent_info |-> agent_info]

HTTPException(status_code, detail) ==
    [status_code |-> status_code, detail |-> detail]

\* Mutant: a text equal to the one before it is not appended again.
RECURSIVE TextsOf_Dedup(_)
TextsOf_Dedup(content) ==
    IF Len(content) = 0 THEN <<>>
    ELSE IF Head(content).type = "TextBlock"
         THEN LET rest == TextsOf_Dedup(Tail(content)) IN
              IF rest # <<>> /\ rest[1] = Head(content).text THEN rest
              ELSE <<Head(content).text>> \o rest
         ELSE TextsOf_Dedup(Tail(content))

\* The texts of the TextBlocks of content, in order: the inner loop's appends.
RECURSIVE TextsOf(_)
TextsOf(content) ==
    IF Len(content) = 0 THEN <<>>
    ELSE IF Head(content).type = "TextBlock"
         THEN <<Head(content).text>> \o TextsOf(Tail(content))
         ELSE TextsOf(Tail(content))

\* After the loop: the success response is returned.
QueryReturn(response_parts, usage_info) ==
    /\ q_result' = [kind |-> "return",
                    value |-> QueryResponse("success", FullResponse(response_parts),
                                            Or(usage_info, EmptyMap), AgentInfo)]
    /\ q_pc' = "done"

\* Mutant: the detail is the failure's text alone.
QueryExcept_BareDetail(e) ==
    /\ q_result' = [kind |-> "raise", exc |-> HTTPException(500, Str(e))]
    /\ q_pc' = "done"

\* except Exception as e: the failure leaves the handler as an HTTPException.
QueryExcept(e) ==
    /\ q_result' = [kind |-> "raise",
                    exc |-> HTTPException(500, "Agent execution failed: " \o Str(e))]
    /\ q_pc' = "done"

\* Mutant: response_parts is one list of the module, emptied by each request.
QueryInvoke_SharedParts ==
    /\ q_pc = "start"
    /\ q_parts' = <<>>
    /\ s_parts' = IF s_calls = 0 THEN s_parts ELSE <<>>
    /\ q_usage' = None
    /\ q_calls' = q_calls + 1
    /\ q_pc' = "await"
    /\ q_args' = QueryArgs(request)
    /\ UNCHANGED <<q_pos, q_result>>
    /\ UNCHANGED <<s_pc, s_calls, s_args, s_prod, s_sent, s_pos, s_msg, s_blk, s_usage, s_out>>
    /\ UNCHANGED prod_vars

\* The handler starts: options, accumulators, query(...) is called and the
\* async for awaits the first message.
QueryInvoke ==
    /\ q_pc = "start"
    /\ q_parts' = <<>>
    /\ q_usage' = None
    /\ q_calls' = q_calls + 1
    /\ q_pc' = "await"
    /\ UNCHANGED <<q_pos, q_result>>
    /\ q_args' = QueryArgs(request)
    /\ UNCHANGED <<prod_vars, s_vars>>

\* Mutant: the fragments of a message replace those gathered before it.
QueryOnAssistant_Overwrite ==
    /\ q_pc = "await"
    /\ HasNext(q_pos)
    /\ NextMessage(q_pos).type = "AssistantMessage"
    /\ q_pos' = q_pos + 1
    /\ q_parts' = TextsOf(NextMessage(q_pos).content)
    /\ UNCHANGED <<q_pc, q_calls, q_usage, q_result>>
    /\ UNCHANGED <<q_args>>
    /\ UNCHANGED <<prod_vars, s_vars>>

\* The producer delivers an AssistantMessage: its texts are appended.
QueryOnAssistant ==
    /\ q_pc = "await"
    /\ HasNext(q_pos)
    /\ NextMessage(q_pos).type = "AssistantMessage"
    /\ q_pos' = q_pos + 1
    /\ q_parts' = q_parts \o TextsOf(NextMessage(q_pos).content)
    /\ UNCHANGED <<q_pc, q_calls, q_usage, q_result>>
    /\ UNCHANGED <<q_args>>
    /\ UNCHANGED <<prod_vars, s_vars>>

QueryOnResult ==
    /\ q_pc = "await"
    /\ HasNext(q_pos)
    /\ NextMessage(q_pos).type = "ResultMessage"
    /\ q_pos' = q_pos + 1
    /\ q_usage' = UsageOf(NextMessage(q_pos))
    /\ QueryReturn(q_parts, UsageOf(NextMessage(q_pos)))
    /\ UNCHANGED <<q_calls, q_parts>>
    /\ UNCHANGED <<q_args>>
    /\ UNCHANGED <<prod_vars, s_vars>>

QueryOnOther ==
    /\ q_pc = "await"
    /\ HasNext(q_pos)
    /\ NextMessage(q_pos).type \notin {"AssistantMessage", "ResultMessage"}
    /\ q_pos' = q_pos + 1
    /\ UNCHANGED <<q_pc, q_calls, q_parts, q_usage, q_result>>
    /\ UNCHANGED <<q_args>>
    /\ UNCHANGED <<prod_vars, s_vars>>

QueryOnStop ==
    /\ q_pc = "await"
    /\ ~HasNext(q_pos)
    /\ prod_end.kind = "stop"
    /\ q_pos' = q_pos + 1
    /\ QueryReturn(q_parts, q_usage)
    /\ UNCHANGED <<q_calls, q_parts, q_usage>>
    /\ UNCHANGED <<q_args>>
    /\ UNCHANGED <<prod_vars, s_vars>>

QueryOnRaise ==
    /\ q_pc = "await"
    /\ ~HasNext(q_pos)
    /\ prod_end.kind = "raise"
    /\ q_pos' = q_pos + 1
    /\ QueryExcept(prod_end.exc)
    /\ UNCHANGED <<q_calls, q_parts, q_usage>>
    /\ UNCHANGED <<q_args>>
    /\ UNCHANGED <<prod_vars, s_vars>>

\* ------------------------------------------------------------- specification
Next ==
    \/ StreamStart
    \/ StreamOptions
    \/ StreamInvoke
    \/ StreamOnAssistant
    \/ StreamResumeBlock
    \/ StreamOnResult
    \/ StreamOnOther
    \/ StreamOnStop
    \/ StreamOnRaise
    \/ StreamFinish
    \/ ClientDisconnect
    \/ QueryInvoke
    \/ QueryOnAssistant
    \/ QueryOnResult
    \/ QueryOnOther
    \/ QueryOnStop
    \/ QueryOnRaise

Spec == Init /\ [][Next]_vars

\* The requests the handlers accept: QueryRequest constrains neither the text
\* of prompt nor the sign of max_turns.
Bodies ==
    {[prompt |-> "rates for USD/EUR"],
     [prompt |-> ""],
     [prompt |-> "rates for USD/EUR", max_turns |-> 0],
     [prompt |-> "", max_turns |-> -1]}

InitRequests ==
    /\ request \in {QueryRequest(b) : b \in Bodies}
    /\ prod_msgs \in ProducerSeqs(MaxMsgs, MaxBlocks)
    /\ prod_end \in Ends
    /\ Entered

\* The runs over every accepted request.
SpecRequests == InitRequests /\ [][Next]_vars

\* A producer whose tool inputs are mappings to any value, as ToolUseBlock
\* declares them: the inputs of its ToolUse blocks hold a bytes object.
OpaqueBlock(b) == IF b.type = "ToolUseBlock" THEN ToolUseBlock(b.name, NonJsonInput) ELSE b
OpaqueMessage(m) ==
    IF m.type = "AssistantMessage"
    THEN AssistantMessage([i \in DOMAIN m.content |-> OpaqueBlock(m.content[i])])
    ELSE m
WithOpaqueInputs(msgs) == [i \in DOMAIN msgs |-> OpaqueMessage(msgs[i])]

InitOpaque ==
    /\ request = QueryRequest([prompt |-> "rates for USD/EUR"])
    /\ prod_msgs \in {WithOpaqueInputs(msgs) : msgs \in ProducerSeqs(MaxMsgs, MaxBlocks)}
    /\ prod_end \in Ends
    /\ Entered

\* The runs over producers with opaque tool inputs.
SpecOpaque == InitOpaque /\ [][Next]_vars

\* ================================================================== claims
\* What the claims read off the state.
EventTypes(out) == [i \in DOMAIN out |-> out[i].type]
CountType(out, t) == Cardinality({i \in DOMAIN out : out[i].type = t})
IsTerminal(ev) == ev.type \in {"complete", "error"}
LastEvent == s_out[Len(s_out)]

StreamDone == s_pc = "done"
QueryDone == q_pc = "done"
StreamCompleted == StreamDone /\ LastEvent.type = "complete"
StreamFailed == StreamDone /\ LastEvent.type = "error"
QuerySucceeded == QueryDone /\ q_result.kind = "return"
QueryFailed == QueryDone /\ q_result.kind = "raise"

\* What the claims read off the producer's sequence.
IsResult(m) == m.type = "ResultMessage"
IsAssistant(m) == m.type = "AssistantMessage"
HasResult == \E i \in DOMAIN prod_msgs : IsResult(prod_msgs[i])
FirstResult == CHOOSE i \in DOMAIN prod_msgs :
                   /\ IsResult(prod_msgs[i])
                   /\ \A j \in 1..(i - 1) : ~IsResult(prod_msgs[j])
\* The messages a consumer can be given: those before the first Result.
Consumable == IF HasResult THEN SubSeq(prod_msgs, 1, FirstResult - 1) ELSE prod_msgs
\* The producer's failure is met: it raises and no Result comes before that.
ProducerFails == prod_end.kind = "raise" /\ ~HasResult
ProducerExhausts == prod_end.kind = "stop" /\ ~HasResult

\* The texts of the Text blocks of a message sequence, in arrival order.
RECURSIVE BlockTexts(_)
BlockTexts(blocks) ==
    IF blocks = <<>> THEN <<>>
    ELSE BlockTexts(SubSeq(blocks, 1, Len(blocks) - 1)) \o
         (IF blocks[Len(blocks)].type = "TextBlock"
          THEN <<blocks[Len(blocks)].text>> ELSE <<>>)
RECURSIVE AllBlocks(_)
AllBlocks(msgs) ==
    IF msgs = <<>> THEN <<>>
    ELSE AllBlocks(SubSeq(msgs, 1, Len(msgs) - 1)) \o
         (IF IsAssistant(msgs[Len(msgs)]) THEN msgs[Len(msgs)].content ELSE <<>>)
AllTexts(msgs) == BlockTexts(AllBlocks(msgs))

\* The fragments joined with a newline between neighbours.
RECURSIVE NewlineJoined(_)
NewlineJoined(parts) ==
    IF parts = <<>> THEN ""
    ELSE IF Len(parts) = 1 THEN parts[1]
    ELSE NewlineJoined(SubSeq(parts, 1, Len(parts) - 1)) \o "\n" \o parts[Len(parts)]

Placeholder == "No response received"

\* The response and tool_use events a block sequence stands for, and the ones
\* a frame sequence carries, both reduced to type and payload.
RECURSIVE Derived(_)
Derived(blocks) ==
    IF blocks = <<>> THEN <<>>
    ELSE LET b == blocks[Len(blocks)] IN
         Derived(SubSeq(blocks, 1, Len(blocks) - 1)) \o
         (IF b.type = "TextBlock" THEN <<<<"response", b.text>>>>
          ELSE IF b.type = "ToolUseBlock" THEN <<<<"tool_use", b.name, b.input>>>>
          ELSE <<>>)
RECURSIVE Emitted(_)
Emitted(out) ==
    IF out = <<>> THEN <<>>
    ELSE LET ev == out[Len(out)] IN
         Emitted(SubSeq(out, 1, Len(out) - 1)) \o
         (IF ev.type = "response" THEN <<<<"response", ev.data.content>>>>
          ELSE IF ev.type = "tool_use" THEN <<<<"tool_use", ev.data.tool, ev.data.input>>>>
          ELSE <<>>)

\* --------------------------------------------------------------------- C1
\* C1: a stream carries at most one terminal event (complete or error), a
\* terminal event is the last event of the stream at every moment (nothing is
\* emitted after it), and a finished stream carries exactly one.
C1_OneTerminalEventLast ==
    /\ \A i \in DOMAIN s_out : IsTerminal(s_out[i]) => i = Len(s_out)
    /\ CountType(s_out, "complete") + CountType(s_out, "error") <= 1
    /\ StreamDone =>
           /\ Len(s_out) > 0
           /\ IsTerminal(LastEvent)
           /\ CountType(s_out, "complete") + CountType(s_out, "error") = 1

\* A stream that failed after events were derived, and one that completed.
C1_Witness ==
    /\ StreamFailed
    /\ Len(s_out) >= 4

\* --------------------------------------------------------------------- C3
\* C3: when the producer raises after its k messages, a finished stream holds
\* exactly one error event and no complete event, every response and tool_use
\* event derived from the k messages precedes the error event, the generator
\* ends by returning, and the blocking handler ends with one failure and no
\* success response.
C3_FailureSurfacesOnce ==
    ProducerFails =>
        /\ (s_pos = Len(prod_msgs) + 1) =>
               /\ s_pc \in {"y_error", "done", "cancelled"}
               /\ CountType(s_out, "error") = 1
               /\ CountType(s_out, "complete") = 0
               /\ LastEvent.type = "error"
               /\ Emitted(SubSeq(s_out, 1, Len(s_out) - 1)) = Derived(AllBlocks(prod_msgs))
        /\ StreamDone => s_pos = Len(prod_msgs) + 1
        /\ QueryDone =>
               /\ q_result.kind = "raise"
               /\ q_pos = Len(prod_msgs) + 1

\* Both modes have met a failure that came after two messages with events.
C3_Witness ==
    /\ ProducerFails
    /\ StreamDone
    /\ QueryDone
    /\ Len(prod_msgs) = 2
    /\ Len(Derived(AllBlocks(prod_msgs))) = 2

\* --------------------------------------------------------------------- C4
\* C4: the first two events of a stream are the startup and the processing
\* progress events, both out before query(...) is called; when the producer
\* fails on its first advance the finished stream is exactly those two and
\* one error event whose error field is the failure's message.
FailureMessage(e) == IF e.args = <<>> THEN "" ELSE e.args[1]

C4_ProgressFirst ==
    /\ s_pc # "start" =>
           /\ Len(s_out) >= 1
           /\ s_out[1].type = "progress"
           /\ s_out[1].data.status = "initializing"
    /\ s_pc \notin {"start", "y_init", "cancelled"} => Len(s_out) >= 2
    /\ Len(s_out) >= 2 =>
           /\ s_out[2].type = "progress"
           /\ s_out[2].data.status = "processing"
    /\ s_calls > 0 => Len(s_out) >= 2
    /\ Len(s_out) < 2 => s_calls = 0 /\ s_pos = 0
    /\ (StreamDone /\ prod_msgs = <<>> /\ prod_end.kind = "raise") =>
           /\ EventTypes(s_out) = <<"progress", "progress", "error">>
           /\ s_out[3].data.error = FailureMessage(prod_end.exc)

\* The producer failed on its first advance and the stream has ended.
C4_Witness ==
    /\ StreamDone
    /\ prod_msgs = <<>>
    /\ prod_end = Raise([cls |-> "ConnectionError", args |-> <<"timeout">>])
    /\ s_out[3].data.error = "timeout"

\* --------------------------------------------------------------------- C2
\* The producer's sequence is Assistant messages of Text blocks only, then a
\* Result message.
OnlyTextThenResult ==
    /\ Len(prod_msgs) >= 1
    /\ IsResult(prod_msgs[Len(prod_msgs)])
    /\ \A i \in 1..(Len(prod_msgs) - 1) :
           /\ IsAssistant(prod_msgs[i])
           /\ \A j \in DOMAIN prod_msgs[i].content :
                  prod_msgs[i].content[j].type = "TextBlock"

\* C2 as stated: on such a sequence the final response of both modes is the
\* newline-join of the texts of all Text blocks in arrival order, and the
\* stream emits exactly one complete event.
C2_Original ==
    OnlyTextThenResult =>
        /\ StreamDone =>
               /\ CountType(s_out, "complete") = 1
               /\ LastEvent.data.response = NewlineJoined(AllTexts(prod_msgs))
        /\ QueryDone =>
               /\ q_result.kind = "return"
               /\ q_result.value.response = NewlineJoined(AllTexts(prod_msgs))

\* C2, amended: on such a sequence with at least one Text block the final
\* response of both modes is the newline-join of the texts of all Text blocks
\* in arrival order (duplicates kept, nothing cut), with no Text block it is
\* the placeholder, and the stream emits exactly one complete event.
C2_JoinedTextsOrPlaceholder ==
    OnlyTextThenResult =>
        LET expected == IF AllTexts(prod_msgs) = <<>> THEN Placeholder
                        ELSE NewlineJoined(AllTexts(prod_msgs)) IN
        /\ StreamDone =>
               /\ CountType(s_out, "complete") = 1
               /\ LastEvent.data.response = expected
        /\ QueryDone =>
               /\ q_result.kind = "return"
               /\ q_result.value.response = expected

\* Both modes finished on two equal Text fragments, then a Result.
C2_Witness ==
    /\ OnlyTextThenResult
    /\ StreamDone
    /\ QueryDone
    /\ AllTexts(prod_msgs) = <<"EUR=0.92", "EUR=0.92">>
    /\ q_result.value.response = "EUR=0.92\nEUR=0.92"

\* --------------------------------------------------------------------- C5
FourFields == {"duration_ms", "total_cost_usd", "num_turns", "session_id"}

\* C5: when the producer yields a Result, neither mode advances the producer
\* past it, the Result adds no event of its own, a later failure is not met
\* (the stream completes, the handler succeeds), the outputs are those of the
\* messages before the Result alone, and usage is the four fields of it.
C5_ResultEndsTheRun ==
    HasResult =>
        LET r == prod_msgs[FirstResult]
            texts == AllTexts(Consumable)
            expected == IF texts = <<>> THEN Placeholder ELSE NewlineJoined(texts) IN
        /\ s_pos <= FirstResult
        /\ q_pos <= FirstResult
        /\ CountType(s_out, "error") = 0
        /\ StreamDone =>
               /\ LastEvent.type = "complete"
               /\ Len(s_out) = 2 + Len(Derived(AllBlocks(Consumable))) + 1
               /\ Emitted(s_out) = Derived(AllBlocks(Consumable))
               /\ LastEvent.data.response = expected
               /\ DOMAIN LastEvent.data.usage = FourFields
               /\ \A f \in FourFields : LastEvent.data.usage[f] = r[f]
        /\ QueryDone =>
               /\ q_result.kind = "return"
               /\ q_result.value.status = "success"
               /\ q_result.value.response = expected
               /\ DOMAIN q_result.value.usage = FourFields
               /\ \A f \in FourFields : q_result.value.usage[f] = r[f]

\* Both modes finished on a Result that had a message and a failure behind it.
C5_Witness ==
    /\ HasResult
    /\ FirstResult = 1
    /\ Len(prod_msgs) = 2
    /\ prod_msgs[2] # prod_msgs[1]
    /\ prod_end.kind = "raise"
    /\ StreamDone
    /\ QueryDone

\* --------------------------------------------------------------------- C6
\* C6: when the producer is exhausted with no Result and no failure, usage in
\* the complete event and in the success response is the empty mapping.
C6_NoResultEmptyUsage ==
    ProducerExhausts =>
        /\ StreamDone =>
               /\ LastEvent.type = "complete"
               /\ DOMAIN LastEvent.data.usage = {}
        /\ QueryDone =>
               /\ q_result.kind = "return"
               /\ DOMAIN q_result.value.usage = {}

\* Both modes finished on an exhausted producer that had yielded messages.
C6_Witness ==
    /\ ProducerExhausts
    /\ Len(prod_msgs) = 2
    /\ StreamDone
    /\ QueryDone

\* --------------------------------------------------------------------- C7
\* C7: when the producer does not fail and no Text block comes before the run
\* ends, the final response of both modes is the placeholder, not "".
C7_NoTextPlaceholder ==
    (~ProducerFails /\ AllTexts(Consumable) = <<>>) =>
        /\ StreamDone =>
               /\ LastEvent.type = "complete"
               /\ LastEvent.data.response = "No response received"
               /\ LastEvent.data.response # ""
        /\ QueryDone =>
               /\ q_result.kind = "return"
               /\ q_result.value.response = "No response received"
               /\ q_result.value.response # ""

\* Both modes finished on a sequence of a ToolUse block and a ToolResult block.
C7_Witness ==
    /\ ~ProducerFails
    /\ AllTexts(Consumable) = <<>>
    /\ Len(AllBlocks(Consumable)) = 2
    /\ Len(Derived(AllBlocks(Consumable))) = 1
    /\ StreamDone
    /\ QueryDone

BlocksGoneThrough ==
    IF s_blk > 0
    THEN AllBlocks(SubSeq(prod_msgs, 1, s_pos - 1)) \o SubSeq(s_msg.content, 1, s_blk)
    ELSE AllBlocks(SubSeq(prod_msgs, 1, IF s_pos > Len(prod_msgs) THEN Len(prod_msgs) ELSE s_pos))

\* C9: at every suspension point of the stream the response and tool_use
\* events emitted so far are, one for one and in order, the Text and ToolUse
\* blocks of the Assistant messages consumed so far (producer order, then
\* content order), each with the block's own payload.
C9_EventsFollowBlocks ==
    s_pc \notin {"start", "y_init", "y_proc"} =>
        Emitted(s_out) = Derived(BlocksGoneThrough)

\* A stream suspended at the yield for the second block of a message, with a
\* response and a tool_use event emitted for its two blocks.
C9_Witness ==
    /\ s_pc = "y_block"
    /\ s_blk = 2
    /\ Len(Emitted(s_out)) = 2
    /\ Emitted(s_out)[1][1] # Emitted(s_out)[2][1]

\* -------------------------------------------------------------------- C10
\* The error event of the stream, once emitted.
HasErrorEvent == Len(s_out) > 0 /\ LastEvent.type = "error"

\* C10 as stated: the detail of the handler's status-500 failure is the text
\* of the error field of the stream's error event.
C10_Original ==
    (QueryFailed /\ HasErrorEvent) =>
        /\ q_result.exc.status_code = 500
        /\ q_result.exc.detail = LastEvent.data.error

\* C10, amended: the handler's failure has status 500 and its detail is the
\* fixed text "Agent execution failed: " followed by the text of the error
\* field of the stream's error event, which is the failure's message.
C10_DetailIsPrefixedDescription ==
    /\ QueryFailed =>
           /\ q_result.exc.status_code = 500
           /\ q_result.exc.detail =
                  "Agent execution failed: " \o FailureMessage(prod_end.exc)
    /\ HasErrorEvent => LastEvent.data.error = FailureMessage(prod_end.exc)
    /\ (QueryFailed /\ HasErrorEvent) =>
           q_result.exc.detail = "Agent execution failed: " \o LastEvent.data.error

\* Both modes have reported the failure "timeout".
C10_Witness ==
    /\ QueryFailed
    /\ HasErrorEvent
    /\ LastEvent.data.error = "timeout"
    /\ q_result.exc.detail = "Agent execution failed: timeout"

\* -------------------------------------------------------------------- C11
\* A request the specification calls malformed.
Malformed(req) == req.prompt = "" \/ req.max_turns <= 0

\* C11 as stated: with an empty prompt or a max_turns that is not positive,
\* neither handler ever starts the producer and no event is emitted.
C11_Original ==
    Malformed(request) =>
        /\ s_calls = 0
        /\ q_calls = 0
        /\ s_out = <<>>

C13_NoRunAhead ==
    /\ Len(s_out) - s_sent \in {0, 1}
    /\ s_pc = "await" => s_sent = Len(s_out)
    /\ s_sent < Len(s_out) =>
           s_pc \in {"y_init", "y_proc", "y_block", "y_complete", "y_error", "cancelled"}
    /\ s_pos > 0 => s_sent >= 2

\* A stream resting at the yield of the second event of a message, the first
\* one sent.
C13_Witness ==
    /\ s_pc = "y_block"
    /\ s_blk = 2
    /\ Len(s_out) = 4
    /\ s_sent = 3

\* -------------------------------------------------------------------- C14
\* C14 as stated: an error event of the stream is there only for a failure of
\* the producer's advance, whose description it carries; a failure to
\* serialise a frame leaves the generator as a fault and yields no such event.
C14_Original ==
    \A i \in DOMAIN s_out :
        s_out[i].type = "error" =>
            /\ prod_end.kind = "raise"
            /\ s_pos = Len(prod_msgs) + 1
            /\ s_out[i].data.error = FailureMessage(prod_end.exc)

\* -------------------------------------------------------------------- C15
\* A block, or a message, that neither test of the loops matches.
SkippedBlock(b) == b.type \notin {"TextBlock", "ToolUseBlock"}
SkippedMessage(m) ==
    \/ m.type \notin {"AssistantMessage", "ResultMessage"}
    \/ /\ IsAssistant(m)
       /\ \A j \in DOMAIN m.content : SkippedBlock(m.content[j])

\* C15: a step that consumes a message of another class, or an Assistant
\* message of other blocks only, and a resumption of the block loop with only
\* other blocks left, emit nothing, fail nothing and leave the fragments, the
\* usage and the state of the machine as they were, in either mode.
C15_UnknownShapesAreSkipped ==
    [][/\ (s_pos' = s_pos + 1 /\ HasNext(s_pos) /\ SkippedMessage(NextMessage(s_pos))) =>
              /\ s_out' = s_out
              /\ s_parts' = s_parts
              /\ s_usage' = s_usage
              /\ s_pc' = "await"
       /\ (/\ s_pc = "y_block"
           /\ s_sent' # s_sent
           /\ \A j \in (s_blk + 1)..Len(s_msg.content) : SkippedBlock(s_msg.content[j])) =>
              /\ s_out' = s_out
              /\ s_parts' = s_parts
              /\ s_usage' = s_usage
              /\ s_pc' = "await"
       /\ (q_pos' = q_pos + 1 /\ HasNext(q_pos) /\ SkippedMessage(NextMessage(q_pos))) =>
              /\ q_parts' = q_parts
              /\ q_usage' = q_usage
              /\ q_pc' = "await"
              /\ q_result' = q_result]_vars

\* Both modes have consumed a message of another class and a message holding
\* a ToolResult block only, and await the producer with nothing gathered.
C15_Witness ==
    /\ prod_msgs = <<SystemMessage, AssistantMessage(<<ToolResultBlock>>)>>
    /\ s_pos = 2
    /\ s_pc = "await"
    /\ Len(s_out) = 2
    /\ s_parts = <<>>
    /\ q_pos = 2
    /\ q_pc = "await"
    /\ q_parts = <<>>

\* -------------------------------------------------------------------- C16
\* What a request run alone on the producer's sequence yields.
RECURSIVE EventsOf(_)
EventsOf(blocks) ==
    IF blocks = <<>> THEN <<>>
    ELSE LET b == blocks[Len(blocks)] IN
         EventsOf(SubSeq(blocks, 1, Len(blocks) - 1)) \o
         (IF b.type = "TextBlock" THEN <<ResponseEvent(b)>>
          ELSE IF b.type = "ToolUseBlock" THEN <<ToolUseEvent(b)>>
          ELSE <<>>)
AloneUsage == IF HasResult THEN UsageOf(prod_msgs[FirstResult]) ELSE None
AloneStream ==
    <<ProgressStart, ProgressProcessing>> \o EventsOf(AllBlocks(Consumable)) \o
    <<IF ProducerFails THEN ErrorEvent(prod_end.exc)
      ELSE CompleteEvent(AllTexts(Consumable), AloneUsage)>>
AloneQuery ==
    IF ProducerFails
    THEN [kind |-> "raise",
          exc |-> HTTPException(500, "Agent execution failed: " \o Str(prod_end.exc))]
    ELSE [kind |-> "return",
          value |-> QueryResponse("success", FullResponse(AllTexts(Consumable)),
                                  Or(AloneUsage, EmptyMap), AgentInfo)]

\* C16: whatever the interleaving of the two requests, the frames of the
\* stream are at every moment the first frames of what it yields when run
\* alone (all of them once it has ended), the handler's result is the one it
\* gives alone, no step of one request changes a variable of the other, and
\* no step changes what both read.
C16_RequestsAreIsolated ==
    /\ [](/\ Len(s_out) <= Len(AloneStream)
          /\ s_out = SubSeq(AloneStream, 1, Len(s_out))
          /\ StreamDone => s_out = AloneStream
          /\ QueryDone => q_result = AloneQuery)
    /\ [][/\ s_vars' # s_vars => q_vars' = q_vars
          /\ q_vars' # q_vars => s_vars' = s_vars
          /\ prod_vars' = prod_vars]_vars

\* The two requests are in the middle of their runs at the same time, at
\* different places of the producer's sequence.
C16_Witness ==
    /\ s_pc = "y_block"
    /\ s_pos = 2
    /\ s_parts # <<>>
    /\ q_pc = "await"
    /\ q_pos = 1
    /\ q_parts # <<>>

\* -------------------------------------------------------------------- C17
\* The number of advances after which the producer has ended for a consumer.
LastAdvance == IF HasResult THEN FirstResult ELSE Len(prod_msgs) + 1

\* C17: each request calls query(...) at most once and advances that one
\* producer no further than its first Result, its exhaustion or its failure;
\* a finished request has called it exactly once.
C17_ProducerInvokedOnce ==
    /\ s_calls <= 1
    /\ q_calls <= 1
    /\ s_pos <= LastAdvance
    /\ q_pos <= LastAdvance
    /\ s_calls = 0 => s_pos = 0
    /\ q_calls = 0 => q_pos = 0
    /\ StreamDone => s_calls = 1 /\ s_pos = LastAdvance
    /\ QueryDone => q_calls = 1 /\ q_pos = LastAdvance

\* Both requests have ended on a failure of the producer after two messages.
C17_Witness ==
    /\ StreamFailed
    /\ QueryFailed
    /\ Len(prod_msgs) = 2
    /\ s_calls = 1
    /\ q_calls = 1

\* -------------------------------------------------------------------- C18
\* The frames the stream yields for the k-th message of the producer: those
\* after the two progress frames and the frames of the messages before it.
FramesBefore(k) == 2 + Len(Derived(AllBlocks(SubSeq(prod_msgs, 1, k - 1))))
FramesFor(k) == SubSeq(s_out, FramesBefore(k) + 1, FramesBefore(k + 1))
\* The stream has gone through the whole content of the k-th message.
GoneThrough(k) == s_pos > k \/ (s_pos = k /\ s_pc = "await")

\* C18: when the producer yields the same Assistant message at two places,
\* the frames the stream has yielded for the second are, in number, order,
\* type and payload, the frames it yielded for the first, whatever had been
\* gathered in between: one frame for each Text or ToolUse block.
C18_SameMessageSameEvents ==
    \A i, j \in DOMAIN prod_msgs :
        (/\ i < j
         /\ IsAssistant(prod_msgs[i])
         /\ prod_msgs[i] = prod_msgs[j]
         /\ GoneThrough(j)) =>
            /\ Len(s_out) >= FramesBefore(j + 1)
            /\ FramesFor(i) = FramesFor(j)
            /\ Len(FramesFor(j)) = Len(Derived(prod_msgs[j].content))

\* The stream has ended after the same one-fragment message came twice.
C18_Witness ==
    /\ prod_msgs = <<AssistantMessage(<<TextBlock("EUR=0.92")>>),
                     AssistantMessage(<<TextBlock("EUR=0.92")>>)>>
    /\ StreamDone
    /\ s_out[3] = s_out[4]
    /\ s_out[3].type = "response"

\* -------------------------------------------------------------------- C19
\* The content fields of the response events of a frame sequence, in order.
RECURSIVE ResponseContents(_)
ResponseContents(out) ==
    IF out = <<>> THEN <<>>
    ELSE ResponseContents(SubSeq(out, 1, Len(out) - 1)) \o
         (IF out[Len(out)].type = "response" THEN <<out[Len(out)].data.content>> ELSE <<>>)

\* C19: from the moment response_parts exists it is the list of the contents
\* of the response events yielded so far, and the response of a complete
\* event is those contents joined with newlines, the placeholder when there
\* are none.
C19_CompleteJoinsEmittedResponses ==
    /\ s_calls > 0 => s_parts = ResponseContents(s_out)
    /\ \A i \in DOMAIN s_out :
           s_out[i].type = "complete" =>
               LET contents == ResponseContents(SubSeq(s_out, 1, i - 1)) IN
               s_out[i].data.response =
                   IF contents = <<>> THEN Placeholder ELSE NewlineJoined(contents)

\* A stream completed after two response events, one of them empty.
C19_Witness ==
    /\ StreamCompleted
    /\ ResponseContents(s_out) = <<"EUR=0.92", "">>
    /\ LastEvent.data.response = "EUR=0.92\n"

\* -------------------------------------------------------------------- C20
\* C20: the final response of either mode is the placeholder exactly when no
\* Text block was consumed; with one or more consumed, empty texts among
\* them, it is the newline-join of all of them.
C20_PlaceholderIffNoTextBlock ==
    LET texts == AllTexts(Consumable) IN
    /\ StreamCompleted =>
           /\ (LastEvent.data.response = Placeholder) <=> (Len(texts) = 0)
           /\ Len(texts) > 0 => LastEvent.data.response = NewlineJoined(texts)
    /\ QuerySucceeded =>
           /\ (q_result.value.response = Placeholder) <=> (Len(texts) = 0)
           /\ Len(texts) > 0 => q_result.value.response = NewlineJoined(texts)

\* Both modes succeeded on a single Text block whose text is empty.
C20_Witness ==
    /\ AllTexts(Consumable) = <<"">>
    /\ StreamCompleted
    /\ LastEvent.data.response = ""
    /\ QuerySucceeded
    /\ q_result.value.response = ""

====
